---- MODULE Spec2Model ----
(***************************************************************************)
(* One tool invocation of the OpenFoodFacts MCP server (src/tools/index.ts) *)
(* as a state machine: the five core tool handlers, the product resolver   *)
(* findProduct they share, and the collaborator calls (barcode lookup,     *)
(* search, sampling) as issue / settle steps with every outcome.           *)
(*                                                                         *)
(* JavaScript values:                                                      *)
(*   - a string that the code inspects (trim, the digit test) is a         *)
(*     sequence of characters; ToStr turns it into the text it stands for; *)
(*   - a value that may be null/undefined is a sequence of length <= 1:    *)
(*     None is null/undefined, Some(v) is v;                               *)
(*   - a thrown value is an Error object, represented by its message.      *)
(***************************************************************************)
EXTENDS Integers, Sequences, FiniteSets, TLC

None == <<>>
Some(v) == <<v>>

\* ---------------------------------------------------------------- bounds
\* Longest identifier string handed to a tool.
MaxLen == 2

\* ------------------------------------------------------------ input sets
Chars == {" ", "1", "a"}
Strings == UNION {[1..n -> Chars] : n \in 0..MaxLen}
\* An identifier argument: a string, or missing altogether.
Identifiers == {None} \cup {Some(s) : s \in Strings}

\* Error messages each collaborator may throw with.
LookupErrors == {"HTTP 500"}
SearchErrors == {"timeout"}
SamplingErrors == {"Sampling not supported", "rate limited"}
BuildErrors == {"no product name"}

\* Product records of the database; no field is required to be present.
Products ==
  { [product_name |-> Some("Nutella"), brands |-> Some("Ferrero"),
     nutriscore_grade |-> Some("e"), ingredients_text |-> Some("sugar, palm oil")],
    [product_name |-> Some(""), brands |-> None,
     nutriscore_grade |-> None, ingredients_text |-> None] }

\* What createRecipeSuggestionRequest can do: build the request or throw.
BuildOutcomes ==
  {[kind |-> "ok"]} \cup {[kind |-> "throw", message |-> m] : m \in BuildErrors}

\* What getProductByBarcode can settle with: a product, nothing, or a throw.
LookupOutcomes ==
  {[kind |-> "ok", value |-> Some(p)] : p \in Products}
    \cup {[kind |-> "ok", value |-> None]}
    \cup {[kind |-> "throw", message |-> m] : m \in LookupErrors}

\* Result sets of searchProducts: null, no products field, an empty page,
\* summaries with a missing, empty or present barcode (a collaborator may
\* return more summaries than the page size asked for).
ResultSets ==
  { None,
    Some([products |-> None]),
    Some([products |-> Some(<<>>)]),
    Some([products |-> Some(<<[barcode |-> None]>>)]),
    Some([products |-> Some(<<[barcode |-> Some("")]>>)]),
    Some([products |-> Some(<<[barcode |-> Some("3017620422003")],
                             [barcode |-> Some("5449000000996")]>>)]) }

SearchOutcomes ==
  {[kind |-> "ok", value |-> r] : r \in ResultSets}
    \cup {[kind |-> "throw", message |-> m] : m \in SearchErrors}

\* What requestSampling + getResponseText can settle with: a text (possibly
\* empty) or a throw.
SamplingOutcomes ==
  {[kind |-> "ok", value |-> t] : t \in {"", "Looks sweet."}}
    \cup {[kind |-> "throw", message |-> m] : m \in SamplingErrors}

\* ------------------------------------------------------- string helpers
IsWhiteSpace(c) == c = " "
IsDigit(c) == c \in {"0", "1", "2", "3", "4", "5", "6", "7", "8", "9"}

RECURSIVE trimStart(_)
trimStart(s) ==
  IF s = <<>> THEN s
  ELSE IF IsWhiteSpace(Head(s)) THEN trimStart(Tail(s)) ELSE s

RECURSIVE trimEnd(_)
trimEnd(s) ==
  IF s = <<>> THEN s
  ELSE IF IsWhiteSpace(s[Len(s)]) THEN trimEnd(SubSeq(s, 1, Len(s) - 1)) ELSE s

\* String.prototype.trim
trim(s) == trimEnd(trimStart(s))

\* The text a character sequence stands for.
RECURSIVE ToStr(_)
ToStr(s) == IF s = <<>> THEN "" ELSE Head(s) \o ToStr(Tail(s))

\* Variant: the blank test without the trim.
IsBlankUntrimmed(id) == id = None \/ id[1] = <<>>

\* !nameOrBarcode?.trim()
IsBlank(id) == id = None \/ trim(id[1]) = <<>>

\* Variant: the digit test without its anchors, /\d+/.
IsBarcodeQueryUnanchored(q) == \E i \in 1..Len(q) : IsDigit(q[i])

\* /^\d+$/.test(query)
IsBarcodeQuery(q) == Len(q) >= 1 /\ \A i \in 1..Len(q) : IsDigit(q[i])

\* `${v}` of a possibly undefined field
Interpolate(v) == IF v = None THEN "undefined" ELSE v[1]

\* v || fallback, for a possibly undefined string
OrElse(v, fallback) == IF v = None \/ v[1] = "" THEN fallback ELSE v[1]

\* A response text is the sequence of the pieces of its template literal.
Includes(text, piece) == \E i \in DOMAIN text : text[i] = piece

\* ------------------------------------------------------- JSON.stringify
RECURSIVE JoinWith(_, _)
JoinWith(parts, sep) ==
  IF parts = <<>> THEN ""
  ELSE IF Len(parts) = 1 THEN parts[1]
  ELSE parts[1] \o sep \o JoinWith(Tail(parts), sep)

JSONString(s) == "\"" \o s \o "\""

\* A field that is undefined is left out of the object.
JSONMember(key, v) == IF v = None THEN <<>> ELSE <<JSONString(key) \o ":" \o JSONString(v[1])>>

JSONProduct(p) ==
  "{" \o JoinWith(JSONMember("product_name", p.product_name)
                    \o JSONMember("brands", p.brands)
                    \o JSONMember("nutriscore_grade", p.nutriscore_grade)
                    \o JSONMember("ingredients_text", p.ingredients_text), ",") \o "}"

\* JSON.stringify(product) at line 76: null for an absent product.
StringifyProduct(v) == IF v = None THEN "null" ELSE JSONProduct(v[1])

JSONSummary(s) == "{" \o JoinWith(JSONMember("barcode", s.barcode), ",") \o "}"

JSONSummaries(list) ==
  "[" \o JoinWith([i \in 1..Len(list) |-> JSONSummary(list[i])], ",") \o "]"

\* JSON.stringify(results) at line 64.
StringifyResults(v) ==
  IF v = None THEN "null"
  ELSE IF v[1].products = None THEN "{}"
  ELSE "{" \o JSONString("products") \o ":" \o JSONSummaries(v[1].products[1]) \o "}"

\* ================================================================ state
VARIABLES
  pc,        \* where the handler is: idle, resolving, passthrough, sampling, done
  tool,      \* the tool invoked, "none" before the invocation
  ids,       \* the identifier arguments of analyze / compare / suggest-recipes
  res,       \* the findProduct calls of the invocation, by position (1, 2)
  calls,     \* collaborator calls the handler itself has issued, in order
  awaited,   \* the call the handler itself awaits (the pass-through call or
             \* the sampling step): not made, pending, or how it settled
  response,  \* None, or Some(object the handler returned)
  escaped    \* None, or Some(message of the error that left the handler)

vars == <<pc, tool, ids, res, calls, awaited, response, escaped>>

\* ------------------------------------------------------ collaborator calls
LookupCall(barcode) == [fn |-> "getProductByBarcode", barcode |-> barcode]
SearchCall(query, page, pageSize) ==
  [fn |-> "searchProducts", query |-> query, page |-> page, pageSize |-> pageSize]
BuildCall(p) == [fn |-> "createRecipeSuggestionRequest", product |-> p]
SamplingCall(request) == [fn |-> "requestSampling", request |-> request]

\* ------------------------------------------------------------ findProduct
\* A findProduct call: its position (pc), the trimmed query, the collaborator
\* calls it has issued, how each of them settled, what it has logged, and
\* what it returned or threw.
NotStarted ==
  [pc |-> "none", query |-> <<>>, calls |-> <<>>, settled |-> <<>>,
   logged |-> <<>>, ret |-> None, thrown |-> None]


Return(r, value) == [r EXCEPT !.pc = "done", !.ret = value]
Reject(r, message) == [r EXCEPT !.pc = "rejected", !.thrown = Some(message)]
Log(r, line) == [r EXCEPT !.logged = Append(@, line)]
Issue(r, stage, call) == [r EXCEPT !.pc = stage, !.calls = Append(@, call)]

\* results?.products?.[0]?.barcode
FirstBarcode(results) ==
  IF results = None THEN None
  ELSE IF results[1].products = None THEN None
  ELSE IF results[1].products[1] = <<>> THEN None
  ELSE results[1].products[1][1].barcode

\* if (barcode)
Truthy(str) == str # None /\ str[1] # ""

\* The awaited barcode lookup of r has settled with o (lines 26, 37).
ObserveLookup(r, o) == [r EXCEPT !.settled = Append(@, o)]

\* The awaited search of r has settled with o (line 34); of a result set only
\* the barcode the code goes on with is kept, None when there is none.
ObserveSearch(r, o) ==
  [r EXCEPT !.settled = Append(@,
     IF o.kind = "throw" THEN o
     ELSE [kind |-> "ok",
           barcode |-> IF Truthy(FirstBarcode(o.value))
                       THEN FirstBarcode(o.value) ELSE None])]

\* Lines 33-34: the search with the query, page 1, page size 1.
BeginSearch(r) == Issue(r, "search", SearchCall(ToStr(r.query), 1, 1))

\* Variant: the direct lookup and the search started together.
BeginFindProductRaced(id) ==
  IF IsBlank(id) THEN Return(NotStarted, None)
  ELSE LET r == [NotStarted EXCEPT !.query = trim(id[1])]
       IN  IF IsBarcodeQuery(r.query)
           THEN BeginSearch(Issue(r, "direct", LookupCall(ToStr(r.query))))
           ELSE BeginSearch(r)

\* Lines 18-34, up to the first await.
BeginFindProduct(id) ==
  IF IsBlank(id) THEN Return(NotStarted, None)
  ELSE LET r == [NotStarted EXCEPT !.query = trim(id[1])]
       IN  IF IsBarcodeQuery(r.query)
           THEN Issue(r, "direct", LookupCall(ToStr(r.query)))
           ELSE BeginSearch(r)

\* Variant: the search is made even when the direct lookup found a product.
AfterDirectAlwaysSearch(r, o) ==
  IF o.kind = "throw"
  THEN BeginSearch(Log(r, <<"Barcode lookup failed: ", "Error: " \o o.message>>))
  ELSE BeginSearch(r)

\* Variant: no search after a direct lookup that found nothing or threw.
AfterDirectNoFallback(r, o) ==
  IF o.kind = "throw"
  THEN Return(Log(r, <<"Barcode lookup failed: ", "Error: " \o o.message>>), None)
  ELSE IF o.value # None THEN Return(r, Some([product |-> o.value]))
  ELSE Return(r, None)

\* Variant: the direct lookup outside any try block.
AfterDirectUncaught(r, o) ==
  IF o.kind = "throw" THEN Reject(r, o.message)
  ELSE IF o.value # None THEN Return(r, Some([product |-> o.value]))
  ELSE BeginSearch(r)

\* Lines 26-34: the direct lookup has settled.
AfterDirect(r, o) ==
  IF o.kind = "throw"
  THEN BeginSearch(Log(r, <<"Barcode lookup failed: ", "Error: " \o o.message>>))
  ELSE IF o.value # None THEN Return(r, Some([product |-> o.value]))
  ELSE BeginSearch(r)

\* Lines 34-44: the search has settled.
AfterSearch(r, o) ==
  IF o.kind = "throw"
  THEN Return(Log(r, <<"Search failed: ", "Error: " \o o.message>>), None)
  ELSE LET barcode == FirstBarcode(o.value)
       IN  IF Truthy(barcode)
           THEN Issue(r, "fetch", LookupCall(barcode[1]))
           ELSE Return(r, None)

\* Variant: a follow-up lookup without a product starts the search again.
AfterFetchSearchesAgain(r, o) ==
  IF o.kind = "throw" \/ o.value = None
  THEN BeginSearch(r)
  ELSE Return(r, Some([product |-> o.value]))

\* Lines 37-44: the follow-up lookup has settled; its product is returned
\* as it is.
AfterFetch(r, o) ==
  IF o.kind = "throw"
  THEN Return(Log(r, <<"Search failed: ", "Error: " \o o.message>>), None)
  ELSE Return(r, Some([product |-> o.value]))

\* !productData?.product
NoProduct(ret) == ret = None \/ ret[1].product = None

\* productData.product, once NoProduct has been excluded
ProductOf(ret) == ret[1].product[1]

\* ============================================================== responses
\* The object a handler returns: one text payload, and the isError flag when
\* the return statement sets it.
Plain(text) == [text |-> text, isError |-> None]
Error(text) == [text |-> text, isError |-> Some(TRUE)]

\* Lines 64 and 66.
SearchResult(o) ==
  IF o.kind = "throw" THEN Error(<<"Error: ", o.message>>)
  ELSE Plain(<<StringifyResults(o.value)>>)

\* Variant: an absent product reported as an error.
BarcodeResultAbsentIsError(o) ==
  IF o.kind = "throw" THEN Error(<<"Error: ", o.message>>)
  ELSE IF o.value = None THEN Error(<<"Error: ", "Product not found">>)
  ELSE Plain(<<StringifyProduct(o.value)>>)

\* Lines 76 and 78.
BarcodeResult(o) ==
  IF o.kind = "throw" THEN Error(<<"Error: ", o.message>>)
  ELSE Plain(<<StringifyProduct(o.value)>>)

\* Line 92.
AnalyzeBlank == Error(<<"Provide a product name or barcode.">>)
\* Line 97.
AnalyzeNotFound(id) == Error(<<"\"", ToStr(id[1]), "\" not found. Try searchProducts first.">>)
\* Lines 110-111.
AnalyzeReport(p, text) ==
  Plain(<<"# ", OrElse(p.product_name, "Product"), " (", OrElse(p.brands, "Unknown"), ")\n", text>>)
\* Variant: the fallback reported as an error, without the ingredients.
AnalyzeFallbackAsError(p) ==
  Error(<<"# ", Interpolate(p.product_name),
          "\nBrand: ", Interpolate(p.brands),
          "\nNutri-Score: ", Interpolate(p.nutriscore_grade)>>)

\* Line 113.
AnalyzeFallback(p) ==
  Plain(<<"# ", Interpolate(p.product_name),
          "\nBrand: ", Interpolate(p.brands),
          "\nNutri-Score: ", Interpolate(p.nutriscore_grade),
          "\nIngredients: ", Interpolate(p.ingredients_text)>>)

\* Line 126.
CompareBlank == Error(<<"Provide both products.">>)
\* Lines 130 and 131.
CompareNotFound(id) == Error(<<"\"", ToStr(id[1]), "\" not found.">>)
\* Line 142.
CompareReport(p1, p2, text) ==
  Plain(<<"# ", Interpolate(p1.product_name), " vs ", Interpolate(p2.product_name), "\n\n", text>>)
\* Variant: the fallback summary without the Nutri-Score line.
CompareFallbackNamesOnly(p1, p2) ==
  Plain(<<"# ", Interpolate(p1.product_name), " vs ", Interpolate(p2.product_name)>>)

\* Variant: the fallback summary returned as an error.
CompareFallbackAsError(p1, p2) ==
  Error(<<"# ", Interpolate(p1.product_name), " vs ", Interpolate(p2.product_name),
          "\nNutri-Score: ", Interpolate(p1.nutriscore_grade),
          " vs ", Interpolate(p2.nutriscore_grade)>>)

\* Line 144.
CompareFallback(p1, p2) ==
  Plain(<<"# ", Interpolate(p1.product_name), " vs ", Interpolate(p2.product_name),
          "\nNutri-Score: ", Interpolate(p1.nutriscore_grade),
          " vs ", Interpolate(p2.nutriscore_grade)>>)

\* Line 156.
RecipesBlank == Error(<<"Provide a product.">>)
\* Variant: the not-found message returned without the error flag.
RecipesNotFoundUnflagged(id) == Plain(<<"\"", ToStr(id[1]), "\" not found.">>)

\* Line 161.
RecipesNotFound(id) == Error(<<"\"", ToStr(id[1]), "\" not found.">>)
\* Line 166.
RecipesReport(p, text) ==
  Plain(<<"# Recipes using ", Interpolate(p.product_name), "\n\n", text>>)
\* Variant: the failure reported without the error's message.
RecipesFailureSilent(message) == Error(<<"Recipe generation failed">>)

\* Line 168.
RecipesFailure(message) == Error(<<"Recipe generation failed: ", message>>)

\* --------------------------------------------------------------- requests
\* Lines 102-109.
AnalysisRequest(p) ==
  [shape |-> "analysis", message |-> <<"Analyze:\n\n", p>>,
   systemPrompt |-> "Nutritional expert. Provide: 1) Overview 2) Nutrition 3) Ingredients 4) Allergens 5) Health 6) Recommendations",
   hint |-> "claude-3", intelligencePriority |-> "0.9", includeContext |-> "thisServer",
   temperature |-> "0.3", maxTokens |-> 1500]
\* Lines 134-141.
ComparisonRequest(p1, p2) ==
  [shape |-> "comparison", message |-> <<"Compare:\n\n1:\n", p1, "\n\n2:\n", p2>>,
   systemPrompt |-> "Compare: 1) Overview 2) Nutrition 3) Ingredients 4) Health 5) Recommendation",
   hint |-> "claude-3", intelligencePriority |-> "0.9", includeContext |-> "thisServer",
   temperature |-> "0.2", maxTokens |-> 2000]
\* Line 165: what createRecipeSuggestionRequest built from the product.
RecipeRequest(p) == [shape |-> "recipe", product |-> p]

\* ================================================================ actions
\* The handler's own awaited call before it is issued, and while in flight.
NotMade == [kind |-> "no"]
Pending == [kind |-> "pending"]

Init ==
  /\ pc = "idle"
  /\ tool = "none"
  /\ ids = <<>>
  /\ res = [i \in 1..2 |-> NotStarted]
  /\ calls = <<>>
  /\ awaited = NotMade
  /\ response = None
  /\ escaped = None

\* return <object>
Respond(r) == pc' = "done" /\ response' = Some(r) /\ escaped' = escaped
\* An error that nothing catches leaves the handler.
Escape(message) == pc' = "done" /\ escaped' = Some(message) /\ response' = response

Settled(r) == r.pc \in {"done", "rejected"}

\* page numbers and page sizes a caller may pass, or leave out
Pages == {None, Some(1), Some(2)}
PageSizes == {None, Some(1)}
\* zod default, then `page ?? 1` / `pageSize ?? 10`
DefaultTo(v, d) == IF v = None THEN d ELSE v[1]

\* ---- searchProducts tool, lines 61-68
InvokeSearchProducts ==
  \E query \in Strings, page \in Pages, pageSize \in PageSizes :
    /\ pc = "idle"
    /\ tool' = "searchProducts"
    /\ pc' = "passthrough"
    /\ calls' = <<SearchCall(ToStr(query), DefaultTo(page, 1), DefaultTo(pageSize, 10))>>
    /\ awaited' = Pending
    /\ UNCHANGED <<ids, res, response, escaped>>

SettleSearchProducts ==
  \E o \in SearchOutcomes :
    /\ pc = "passthrough" /\ tool = "searchProducts"
    /\ awaited' = o
    /\ Respond(SearchResult(o))
    /\ UNCHANGED <<tool, ids, res, calls>>

\* ---- getProductByBarcode tool, lines 73-80
InvokeGetProductByBarcode ==
  \E barcode \in Strings :
    /\ pc = "idle"
    /\ tool' = "getProductByBarcode"
    /\ pc' = "passthrough"
    /\ calls' = <<LookupCall(ToStr(barcode))>>
    /\ awaited' = Pending
    /\ UNCHANGED <<ids, res, response, escaped>>

SettleGetProductByBarcode ==
  \E o \in LookupOutcomes :
    /\ pc = "passthrough" /\ tool = "getProductByBarcode"
    /\ awaited' = o
    /\ Respond(BarcodeResult(o))
    /\ UNCHANGED <<tool, ids, res, calls>>

\* ---- findProduct: a collaborator call of resolver i settles and the
\* resolver runs on to its next await or to its return.
SettleDirect(i) ==
  \E o \in LookupOutcomes :
    /\ res[i].pc = "direct"
    /\ res' = [res EXCEPT ![i] = AfterDirect(ObserveLookup(res[i], o), o)]
    /\ UNCHANGED <<pc, tool, ids, calls, awaited, response, escaped>>

SettleSearch(i) ==
  \E o \in SearchOutcomes :
    /\ res[i].pc = "search"
    /\ res' = [res EXCEPT ![i] = AfterSearch(ObserveSearch(res[i], o), o)]
    /\ UNCHANGED <<pc, tool, ids, calls, awaited, response, escaped>>

SettleFetch(i) ==
  \E o \in LookupOutcomes :
    /\ res[i].pc = "fetch"
    /\ res' = [res EXCEPT ![i] = AfterFetch(ObserveLookup(res[i], o), o)]
    /\ UNCHANGED <<pc, tool, ids, calls, awaited, response, escaped>>

\* ---- analyzeProduct tool, lines 90-115
InvokeAnalyze ==
  \E id \in Identifiers :
    /\ pc = "idle"
    /\ tool' = "analyzeProduct"
    /\ ids' = <<id>>
    /\ IF IsBlank(id)
       THEN Respond(AnalyzeBlank) /\ res' = res
       ELSE /\ res' = [res EXCEPT ![1] = BeginFindProduct(id)]
            /\ pc' = "resolving"
            /\ UNCHANGED <<response, escaped>>
    /\ UNCHANGED <<calls, awaited>>

\* Lines 95-109: findProduct has settled.
JoinAnalyze ==
  /\ pc = "resolving" /\ tool = "analyzeProduct"
  /\ Settled(res[1])
  /\ IF res[1].pc = "rejected"
     THEN Escape(res[1].thrown[1]) /\ UNCHANGED <<calls, awaited>>
     ELSE IF NoProduct(res[1].ret)
     THEN Respond(AnalyzeNotFound(ids[1])) /\ UNCHANGED <<calls, awaited>>
     ELSE /\ calls' = Append(calls, SamplingCall(AnalysisRequest(ProductOf(res[1].ret))))
          /\ awaited' = Pending
          /\ pc' = "sampling"
          /\ UNCHANGED <<response, escaped>>
  /\ UNCHANGED <<tool, ids, res>>

\* Variant: a sampling call that threw is sent once more.
SettleAnalyzeRetry ==
  \E o \in SamplingOutcomes :
    /\ pc = "sampling" /\ tool = "analyzeProduct"
    /\ IF o.kind = "throw"
       THEN /\ calls' = Append(calls, SamplingCall(AnalysisRequest(ProductOf(res[1].ret))))
            /\ UNCHANGED <<pc, awaited, response, escaped>>
       ELSE /\ awaited' = o
            /\ Respond(AnalyzeReport(ProductOf(res[1].ret), o.value))
            /\ calls' = calls
    /\ UNCHANGED <<tool, ids, res>>

\* Lines 109-114: the sampling call has settled.
SettleAnalyze ==
  \E o \in SamplingOutcomes :
    /\ pc = "sampling" /\ tool = "analyzeProduct"
    /\ awaited' = o
    /\ Respond(IF o.kind = "throw"
               THEN AnalyzeFallback(ProductOf(res[1].ret))
               ELSE AnalyzeReport(ProductOf(res[1].ret), o.value))
    /\ UNCHANGED <<tool, ids, res, calls>>

\* ---- compareProducts tool, lines 124-146
\* Lines 125-129: both findProduct calls run to their first await, one after
\* the other, before Promise.all is awaited.
InvokeCompare ==
  \E id1 \in Identifiers, id2 \in Identifiers :
    /\ pc = "idle"
    /\ tool' = "compareProducts"
    /\ ids' = <<id1, id2>>
    /\ IF IsBlank(id1) \/ IsBlank(id2)
       THEN Respond(CompareBlank) /\ res' = res
       ELSE /\ res' = [i \in 1..2 |-> BeginFindProduct(<<id1, id2>>[i])]
            /\ pc' = "resolving"
            /\ UNCHANGED <<response, escaped>>
    /\ UNCHANGED <<calls, awaited>>

\* Variant: Promise.race in place of Promise.all.
AnySettled(rs) == \E i \in 1..2 : rs[i].pc \in {"done", "rejected"}

\* Variant: the join waits until both calls have returned a product.
BothFound(rs) == \A i \in 1..2 : rs[i].pc = "done" /\ ~NoProduct(rs[i].ret)

\* Promise.all: fulfilled when both have returned, rejected as soon as one
\* has thrown.
AllSettled(rs) ==
  \/ \A i \in 1..2 : rs[i].pc = "done"
  \/ \E i \in 1..2 : rs[i].pc = "rejected"

\* Variant: the second bundle checked before the first.
FirstMissingReversed(rs) ==
  IF NoProduct(rs[2].ret) THEN 2
  ELSE IF NoProduct(rs[1].ret) THEN 1
  ELSE 0

\* Lines 130-131: the position of the first bundle without a product, 0 when
\* both have one.
FirstMissing(rs) ==
  IF NoProduct(rs[1].ret) THEN 1
  ELSE IF NoProduct(rs[2].ret) THEN 2
  ELSE 0

\* Lines 129-141: Promise.all has settled.
JoinCompare ==
  /\ pc = "resolving" /\ tool = "compareProducts"
  /\ AllSettled(res)
  /\ IF \E i \in 1..2 : res[i].pc = "rejected"
     THEN /\ \E i \in 1..2 : res[i].pc = "rejected" /\ Escape(res[i].thrown[1])
          /\ UNCHANGED <<calls, awaited>>
     ELSE IF FirstMissing(res) # 0
     THEN Respond(CompareNotFound(ids[FirstMissing(res)])) /\ UNCHANGED <<calls, awaited>>
     ELSE /\ calls' = Append(calls, SamplingCall(
                 ComparisonRequest(ProductOf(res[1].ret), ProductOf(res[2].ret))))
          /\ awaited' = Pending
          /\ pc' = "sampling"
          /\ UNCHANGED <<response, escaped>>
  /\ UNCHANGED <<tool, ids, res>>

\* Lines 141-145: the sampling call has settled.
SettleCompare ==
  \E o \in SamplingOutcomes :
    /\ pc = "sampling" /\ tool = "compareProducts"
    /\ awaited' = o
    /\ Respond(IF o.kind = "throw"
               THEN CompareFallback(ProductOf(res[1].ret), ProductOf(res[2].ret))
               ELSE CompareReport(ProductOf(res[1].ret), ProductOf(res[2].ret), o.value))
    /\ UNCHANGED <<tool, ids, res, calls>>

\* ---- suggestRecipes tool, lines 154-170
InvokeRecipes ==
  \E id \in Identifiers :
    /\ pc = "idle"
    /\ tool' = "suggestRecipes"
    /\ ids' = <<id>>
    /\ IF IsBlank(id)
       THEN Respond(RecipesBlank) /\ res' = res
       ELSE /\ res' = [res EXCEPT ![1] = BeginFindProduct(id)]
            /\ pc' = "resolving"
            /\ UNCHANGED <<response, escaped>>
    /\ UNCHANGED <<calls, awaited>>

\* Lines 159-165: findProduct has settled; the request is built inside the
\* try block and, when that throws, never sent.
JoinRecipes ==
  /\ pc = "resolving" /\ tool = "suggestRecipes"
  /\ Settled(res[1])
  /\ IF res[1].pc = "rejected"
     THEN Escape(res[1].thrown[1]) /\ UNCHANGED <<calls, awaited>>
     ELSE IF NoProduct(res[1].ret)
     THEN Respond(RecipesNotFound(ids[1])) /\ UNCHANGED <<calls, awaited>>
     ELSE \E b \in BuildOutcomes :
            LET p == ProductOf(res[1].ret)
            IN  IF b.kind = "throw"
                THEN /\ calls' = Append(calls, BuildCall(p))
                     /\ awaited' = b
                     /\ Respond(RecipesFailure(b.message))
                ELSE /\ calls' = calls \o <<BuildCall(p), SamplingCall(RecipeRequest(p))>>
                     /\ awaited' = Pending
                     /\ pc' = "sampling"
                     /\ UNCHANGED <<response, escaped>>
  /\ UNCHANGED <<tool, ids, res>>

\* Lines 165-169: the sampling call has settled.
SettleRecipes ==
  \E o \in SamplingOutcomes :
    /\ pc = "sampling" /\ tool = "suggestRecipes"
    /\ awaited' = o
    /\ Respond(IF o.kind = "throw"
               THEN RecipesFailure(o.message)
               ELSE RecipesReport(ProductOf(res[1].ret), o.value))
    /\ UNCHANGED <<tool, ids, res, calls>>

\* ---------------------------------------------------------- specification
Next ==
  \/ InvokeSearchProducts
  \/ SettleSearchProducts
  \/ InvokeGetProductByBarcode
  \/ SettleGetProductByBarcode
  \/ InvokeAnalyze
  \/ JoinAnalyze
  \/ SettleAnalyze
  \/ InvokeCompare
  \/ JoinCompare
  \/ SettleCompare
  \/ InvokeRecipes
  \/ JoinRecipes
  \/ SettleRecipes
  \/ \E i \in 1..2 : SettleDirect(i)
  \/ \E i \in 1..2 : SettleSearch(i)
  \/ \E i \in 1..2 : SettleFetch(i)

Spec == Init /\ [][Next]_vars

\* Every collaborator call eventually settles, and a continuation that can run
\* does run (the event loop).
Progress ==
  \/ SettleSearchProducts \/ SettleGetProductByBarcode
  \/ JoinAnalyze \/ SettleAnalyze
  \/ JoinCompare \/ SettleCompare
  \/ JoinRecipes \/ SettleRecipes
  \/ \E i \in 1..2 : SettleDirect(i) \/ SettleSearch(i) \/ SettleFetch(i)

FairSpec == Spec /\ WF_vars(Progress)

\* ---- findProduct on its own, called with any identifier (lines 18-45)
CallFindProduct ==
  \E id \in Identifiers :
    /\ pc = "idle"
    /\ tool' = "findProduct"
    /\ ids' = <<id>>
    /\ res' = [res EXCEPT ![1] = BeginFindProduct(id)]
    /\ pc' = "resolving"
    /\ UNCHANGED <<calls, awaited, response, escaped>>

ResolverNext ==
  \/ CallFindProduct
  \/ SettleDirect(1)
  \/ SettleSearch(1)
  \/ SettleFetch(1)

ResolverSpec == Init /\ [][ResolverNext]_vars

\* ================================================================= claims
Orchestrators == {"analyzeProduct", "compareProducts", "suggestRecipes"}
PassThrough == {"searchProducts", "getProductByBarcode"}

\* An identifier argument that is missing, empty or made of white space only.
MissingOrWhite(id) == id = None \/ \A k \in 1..Len(id[1]) : id[1][k] = " "
AnyBlankArgument == \E k \in DOMAIN ids : MissingOrWhite(ids[k])

\* The handler has returned an object.
Responded == pc = "done" /\ response # None
\* No collaborator call of any kind has been issued in this invocation.
NoCallAtAll == calls = <<>> /\ \A i \in 1..2 : res[i].calls = <<>>
\* The handler has built or sent a sampling request.
SamplingTouched ==
  \E k \in DOMAIN calls : calls[k].fn \in {"requestSampling", "createRecipeSuggestionRequest"}
\* findProduct call i has returned a bundle that holds a product record.
Resolved(i) ==
  res[i].pc = "done" /\ res[i].ret # None /\ res[i].ret[1].product # None
\* The product record findProduct call i returned.
Found(i) == res[i].ret[1].product[1]
ProductFields == {"product_name", "brands", "nutriscore_grade", "ingredients_text"}

\* C1: in analyze, when the product resolved and the sampling call threw, the
\* response carries no isError flag and its text contains the product's name,
\* brand, nutrition grade and ingredients text.
C1_AnalyzeFallsBack ==
  (tool = "analyzeProduct" /\ pc = "done" /\ awaited.kind = "throw") =>
    /\ Resolved(1)
    /\ response # None /\ escaped = None
    /\ response[1].isError = None
    /\ \A f \in ProductFields : Includes(response[1].text, Interpolate(Found(1)[f]))

C1_Witness ==
  /\ tool = "analyzeProduct" /\ pc = "done" /\ awaited.kind = "throw"
  /\ Found(1).ingredients_text = Some("sugar, palm oil")

\* C2: in suggest-recipes, when the product resolved and building or sending
\* the sampling request threw, the response has isError = true, its text
\* includes the error's message, and it reports none of the product's fields.
C2_RecipesFailureIsError ==
  (tool = "suggestRecipes" /\ pc = "done" /\ awaited.kind = "throw") =>
    /\ Resolved(1)
    /\ response # None /\ escaped = None
    /\ response[1].isError = Some(TRUE)
    /\ Includes(response[1].text, awaited.message)
    /\ \A f \in ProductFields : ~Includes(response[1].text, Interpolate(Found(1)[f]))

C2_Witness ==
  /\ tool = "suggestRecipes" /\ pc = "done" /\ awaited.kind = "throw"
  /\ awaited.message \in SamplingErrors
  /\ Len(calls) = 2

\* C3: in compare with two non-blank identifiers, when a resolution yields no
\* product the response is the not-found message, with isError = true, for the
\* first identifier in argument order that did not resolve, and no sampling
\* request is built or sent.
C3_CompareNamesFirstUnresolved ==
  (tool = "compareProducts" /\ pc = "done" /\ ~AnyBlankArgument
     /\ \E i \in 1..2 : ~Resolved(i)) =>
    LET first == IF ~Resolved(1) THEN 1 ELSE 2
    IN  /\ response # None /\ escaped = None
        /\ response[1].isError = Some(TRUE)
        /\ response[1].text = <<"\"", ToStr(ids[first][1]), "\" not found.">>
        /\ ~SamplingTouched /\ awaited.kind = "no"

C3_Witness ==
  /\ tool = "compareProducts" /\ pc = "done" /\ ~AnyBlankArgument
  /\ ~Resolved(1) /\ ~Resolved(2)
  /\ ToStr(ids[1][1]) # ToStr(ids[2][1])

\* C4: in analyze, compare and suggest-recipes, when a required identifier is
\* missing or blank the handler has returned an error response (isError = true)
\* and no barcode lookup, search or sampling call has been issued.
C4_BlankIsRejectedWithoutCalls ==
  (tool \in Orchestrators /\ AnyBlankArgument) =>
    /\ Responded /\ escaped = None
    /\ response[1].isError = Some(TRUE)
    /\ NoCallAtAll
    /\ awaited.kind = "no"
    /\ \A i \in 1..2 : res[i].pc = "none"

C4_Witness ==
  /\ tool = "compareProducts" /\ Responded
  /\ ~MissingOrWhite(ids[1]) /\ ids[2] = Some(<<" ">>)

\* C5: in analyze, compare and suggest-recipes a sampling request is built or
\* sent only when every required identifier has resolved to a bundle holding
\* a product record; when a resolution yields no product (a missing bundle, or
\* a bundle whose follow-up fetch returned nothing) the call ends in a
\* not-found response with isError = true and without any sampling call.
NotFoundEndings == {"\" not found.", "\" not found. Try searchProducts first."}

C5_SamplingOnlyAfterResolution ==
  /\ (tool \in Orchestrators /\ (SamplingTouched \/ awaited.kind # "no")) =>
       \A i \in DOMAIN ids : Resolved(i)
  /\ (tool \in Orchestrators /\ pc = "done" /\ ~AnyBlankArgument
        /\ \E i \in DOMAIN ids : ~Resolved(i)) =>
       /\ response # None /\ escaped = None
       /\ response[1].isError = Some(TRUE)
       /\ \E e \in NotFoundEndings : Includes(response[1].text, e)
       /\ \E i \in DOMAIN ids : ~Resolved(i) /\ Includes(response[1].text, ToStr(ids[i][1]))
       /\ ~SamplingTouched /\ awaited.kind = "no"

C5_Witness ==
  /\ tool = "suggestRecipes" /\ pc = "done"
  /\ res[1].ret = Some([product |-> None])
  /\ Len(res[1].calls) = 3

\* C6: a finished invocation carries isError = true exactly when it ended in a
\* validation, not-found or failure outcome, and no isError flag exactly when
\* it ended in a successful or fallback outcome.
ValidationOutcome == tool \in Orchestrators /\ AnyBlankArgument
NotFoundOutcome ==
  tool \in Orchestrators /\ ~AnyBlankArgument /\ \E i \in DOMAIN ids : ~Resolved(i)
FailureOutcome ==
  awaited.kind = "throw" /\ tool \in PassThrough \cup {"suggestRecipes"}
SuccessOutcome == awaited.kind = "ok"
FallbackOutcome ==
  awaited.kind = "throw" /\ tool \in {"analyzeProduct", "compareProducts"}

C6_ErrorFlagMatchesOutcome ==
  pc = "done" =>
    /\ response # None
    /\ response[1].isError = Some(TRUE)
         <=> (ValidationOutcome \/ NotFoundOutcome \/ FailureOutcome)
    /\ response[1].isError = None <=> (SuccessOutcome \/ FallbackOutcome)

C6_Witness ==
  /\ tool = "compareProducts" /\ pc = "done" /\ awaited.kind = "throw"
  /\ response[1].isError = None

\* C7: whatever collaborator calls throw, no error leaves findProduct or a
\* tool handler, and a finished handler has returned a text response.
C7_NothingEscapes ==
  /\ escaped = None
  /\ \A i \in 1..2 : res[i].pc # "rejected" /\ res[i].thrown = None
  /\ pc = "done" => (response # None /\ Len(response[1].text) >= 1)

C7_Witness ==
  /\ tool = "compareProducts" /\ Responded
  /\ \A i \in 1..2 : Len(res[i].logged) = 2

\* C8: a pass-through tool issues exactly one collaborator call; its response
\* has isError = true and the error's message exactly when that call threw,
\* and otherwise is the serialized result without an error flag, "null" for
\* an absent product.
C8_PassThrough ==
  tool \in PassThrough =>
    /\ Len(calls) = 1 /\ calls[1].fn = tool
    /\ \A i \in 1..2 : res[i].calls = <<>>
    /\ pc = "done" =>
         /\ response # None /\ escaped = None
         /\ response[1].isError = Some(TRUE) <=> awaited.kind = "throw"
         /\ awaited.kind = "throw" => response[1].text = <<"Error: ", awaited.message>>
         /\ awaited.kind = "ok" =>
              /\ response[1].isError = None
              /\ response[1].text =
                   <<IF tool = "searchProducts" THEN StringifyResults(awaited.value)
                     ELSE StringifyProduct(awaited.value)>>
              /\ (tool = "getProductByBarcode" /\ awaited.value = None) =>
                   response[1].text = <<"null">>

C8_Witness ==
  /\ tool = "getProductByBarcode" /\ pc = "done"
  /\ awaited.kind = "ok" /\ awaited.value = None

\* C9: a bundle returned by findProduct holds a product record: it never
\* returns {product: X} with X absent.
C9_BundleHoldsProduct ==
  \A i \in 1..2 :
    (res[i].pc = "done" /\ res[i].ret # None) => res[i].ret[1].product # None

\* C10: in compare, both findProduct calls have been started (each has issued
\* its first collaborator call) before either is awaited; while one of them is
\* still running the handler has produced nothing, whatever the other one
\* returned, and the running one's pending call can still settle.
C10_CompareJoinsBoth ==
  (tool = "compareProducts" /\ ~AnyBlankArgument) =>
    /\ \A i \in 1..2 : res[i].pc # "none" /\ Len(res[i].calls) >= 1
    /\ \A i \in 1..2 :
         res[i].pc # "done" =>
           /\ pc = "resolving" /\ response = None /\ escaped = None
           /\ awaited.kind = "no" /\ calls = <<>>
           /\ ENABLED (SettleDirect(i) \/ SettleSearch(i) \/ SettleFetch(i))

C10_Witness ==
  /\ tool = "compareProducts" /\ pc = "resolving"
  /\ res[1].pc = "done" /\ res[1].ret = None
  /\ res[2].pc = "fetch"

\* ---- the resolver, call by call
\* The identifier without its leading and trailing white space.
Stripped(id) ==
  LET s == id[1]
      inked == {k \in 1..Len(s) : s[k] # " "}
  IN  IF inked = {} THEN <<>>
      ELSE SubSeq(s, CHOOSE k \in inked : \A j \in inked : k <= j,
                     CHOOSE k \in inked : \A j \in inked : k >= j)
\* A non-empty string of decimal digits.
DigitsOnly(q) ==
  q # <<>> /\ \A k \in 1..Len(q) : q[k] \in {"0", "1", "2", "3", "4", "5", "6", "7", "8", "9"}
\* findProduct call i has been made, with identifier ids[i].
Called(i) == i \in DOMAIN ids /\ res[i].pc # "none"
\* The k-th collaborator call of findProduct call i has settled.
HasSettled(i, k) == k <= Len(res[i].settled)
\* ... with a product record / with nothing or a throw.
GaveProduct(i, k) ==
  /\ HasSettled(i, k) /\ res[i].calls[k].fn = "getProductByBarcode"
  /\ res[i].settled[k].kind = "ok" /\ res[i].settled[k].value # None
GaveNoProduct(i, k) ==
  /\ HasSettled(i, k) /\ res[i].calls[k].fn = "getProductByBarcode"
  /\ (res[i].settled[k].kind = "throw" \/ res[i].settled[k].value = None)
\* A result set without results.
NoResults(o) ==
  o.kind = "ok" /\ (o.value = None \/ o.value[1].products \in {None, Some(<<>>)})

\* C11: for an all-digit identifier whose direct barcode lookup returned a
\* product, findProduct has returned the bundle holding that product, having
\* made that one lookup and no search or further lookup.
C11_DirectHitReturnsAtOnce ==
  \A i \in 1..2 :
    (Called(i) /\ DigitsOnly(Stripped(ids[i])) /\ GaveProduct(i, 1)) =>
      /\ res[i].pc = "done"
      /\ res[i].ret = Some([product |-> res[i].settled[1].value])
      /\ res[i].calls = <<[fn |-> "getProductByBarcode", barcode |-> ToStr(Stripped(ids[i]))]>>
      /\ Len(res[i].settled) = 1

C11_Witness ==
  /\ tool = "analyzeProduct" /\ ids = <<Some(<<" ", "1">>)>>
  /\ GaveProduct(1, 1) /\ res[1].pc = "done"

\* C12: for an all-digit identifier whose direct barcode lookup found nothing
\* or threw, findProduct's next call is a search with the (trimmed) identifier
\* as query, page 1, page size 1; when that search returns no results,
\* findProduct returns null without a further call.
C12_DirectMissFallsBackToSearch ==
  \A i \in 1..2 :
    (Called(i) /\ DigitsOnly(Stripped(ids[i])) /\ GaveNoProduct(i, 1)) =>
      /\ Len(res[i].calls) >= 2
      /\ res[i].calls[2] = [fn |-> "searchProducts", query |-> ToStr(Stripped(ids[i])),
                            page |-> 1, pageSize |-> 1]
      /\ (HasSettled(i, 2) /\ res[i].settled[2].kind = "ok"
            /\ res[i].settled[2].barcode = None) =>
           (res[i].pc = "done" /\ res[i].ret = None /\ Len(res[i].calls) = 2)
      /\ res[i].pc = "search" =>
           \A o \in SearchOutcomes :
             NoResults(o) =>
               LET r == AfterSearch(ObserveSearch(res[i], o), o)
               IN  r.pc = "done" /\ r.ret = None /\ r.calls = res[i].calls

C12_Witness ==
  /\ tool = "suggestRecipes" /\ Called(1) /\ DigitsOnly(Stripped(ids[1]))
  /\ GaveNoProduct(1, 1) /\ res[1].settled[1].kind = "throw"
  /\ HasSettled(1, 2) /\ res[1].settled[2].kind = "ok"
  /\ res[1].pc = "done" /\ res[1].ret = None

\* A result set whose first summary carries a non-empty barcode.
FirstHasBarcode(o) ==
  /\ o.kind = "ok" /\ o.value # None /\ o.value[1].products # None
  /\ Len(o.value[1].products[1]) >= 1
  /\ o.value[1].products[1][1].barcode \notin {None, Some("")}

\* C13: for a non-blank identifier that is not all digits, findProduct's first
\* call is a search with the trimmed identifier, page 1, page size 1, never a
\* barcode lookup; a barcode lookup is made only as its second call, after the
\* search returned a first result with a barcode, and with that barcode.
C13_NamesGoThroughSearch ==
  \A i \in 1..2 :
    (Called(i) /\ Stripped(ids[i]) # <<>> /\ ~DigitsOnly(Stripped(ids[i]))) =>
      /\ Len(res[i].calls) \in {1, 2}
      /\ res[i].calls[1] = [fn |-> "searchProducts", query |-> ToStr(Stripped(ids[i])),
                            page |-> 1, pageSize |-> 1]
      /\ Len(res[i].calls) = 2 =>
           /\ HasSettled(i, 1) /\ res[i].settled[1].kind = "ok"
           /\ res[i].settled[1].barcode # None
           /\ res[i].calls[2] = [fn |-> "getProductByBarcode",
                                 barcode |-> res[i].settled[1].barcode[1]]
      /\ res[i].pc = "search" =>
           \A o \in SearchOutcomes :
             LET r == AfterSearch(ObserveSearch(res[i], o), o)
             IN  IF FirstHasBarcode(o)
                 THEN r.calls = Append(res[i].calls,
                        [fn |-> "getProductByBarcode",
                         barcode |-> o.value[1].products[1][1].barcode[1]])
                 ELSE r.calls = res[i].calls

C13_Witness ==
  /\ tool = "analyzeProduct" /\ ids = <<Some(<<"1", "a">>)>>
  /\ Len(res[1].calls) = 2 /\ res[1].pc = "done"

\* C14: within one findProduct call at most one collaborator call is in
\* flight, and a search is started only when every earlier call (the direct
\* barcode lookup of an all-digit identifier) has settled.
InFlight(i) == Len(res[i].calls) - Len(res[i].settled)

C14_LookupSettlesBeforeSearch ==
  \A i \in 1..2 :
    Called(i) =>
      /\ InFlight(i) \in {0, 1}
      /\ InFlight(i) = 1 <=> res[i].pc \in {"direct", "search", "fetch"}
      /\ \A k \in 1..Len(res[i].calls) :
           res[i].calls[k].fn = "searchProducts" => Len(res[i].settled) >= k - 1

C14_Witness ==
  /\ Called(1) /\ DigitsOnly(Stripped(ids[1]))
  /\ res[1].pc = "search" /\ Len(res[1].calls) = 2 /\ Len(res[1].settled) = 1
  /\ res[1].settled[1].kind = "throw"

\* C15: at every stage of findProduct (direct lookup, search, follow-up
\* lookup) a throw of the awaited call is caught, and the call goes on and
\* returns exactly as it does when that stage yields nothing.
SameCourse(a, b) ==
  /\ a.pc # "rejected" /\ a.thrown = None
  /\ a.pc = b.pc /\ a.ret = b.ret /\ a.calls = b.calls
LookupNothing == [kind |-> "ok", value |-> None]
SearchNothing == [kind |-> "ok", value |-> Some([products |-> Some(<<>>)])]

ThrowAsNothingAtDirect(i) ==
  res[i].pc = "direct" =>
    \A t \in LookupOutcomes :
      t.kind = "throw" =>
        SameCourse(AfterDirect(ObserveLookup(res[i], t), t),
                   AfterDirect(ObserveLookup(res[i], LookupNothing), LookupNothing))
ThrowAsNothingAtSearch(i) ==
  res[i].pc = "search" =>
    \A t \in SearchOutcomes :
      t.kind = "throw" =>
        SameCourse(AfterSearch(ObserveSearch(res[i], t), t),
                   AfterSearch(ObserveSearch(res[i], SearchNothing), SearchNothing))
ThrowAsNothingAtFetch(i) ==
  res[i].pc = "fetch" =>
    \A t \in LookupOutcomes :
      t.kind = "throw" =>
        SameCourse(AfterFetch(ObserveLookup(res[i], t), t),
                   AfterFetch(ObserveLookup(res[i], LookupNothing), LookupNothing))

C15_ThrowIsTreatedAsNothing ==
  \A i \in 1..2 :
    /\ res[i].pc # "rejected" /\ res[i].thrown = None
    /\ ThrowAsNothingAtDirect(i)
    /\ ThrowAsNothingAtSearch(i)
    /\ ThrowAsNothingAtFetch(i)

\* C16 as stated: in compare, when both products resolved and the sampling
\* call threw, the response is a non-error fallback summary that contains
\* each product's name, brand, nutrition grade and ingredients text.
CompareFellBack == tool = "compareProducts" /\ pc = "done" /\ awaited.kind = "throw"

C16_CompareFallbackHasAllFields ==
  CompareFellBack =>
    /\ response # None /\ response[1].isError = None
    /\ \A i \in 1..2 : \A f \in ProductFields :
         Includes(response[1].text, Interpolate(Found(i)[f]))

\* C16 as amended: in compare, when both products resolved and the sampling
\* call threw, the response is a non-error fallback summary made of the two
\* products' names and nutrition grades only.
C16_CompareFallbackNamesAndGrades ==
  CompareFellBack =>
    /\ Resolved(1) /\ Resolved(2)
    /\ response # None /\ escaped = None
    /\ response[1].isError = None
    /\ response[1].text =
         <<"# ", Interpolate(Found(1).product_name),
           " vs ", Interpolate(Found(2).product_name),
           "\nNutri-Score: ", Interpolate(Found(1).nutriscore_grade),
           " vs ", Interpolate(Found(2).nutriscore_grade)>>

C16_Witness ==
  /\ CompareFellBack
  /\ Found(1).brands = Some("Ferrero") /\ Found(2).brands = None

\* C17: in one invocation of analyze, compare or suggest-recipes the sampling
\* gateway is called at most once; once its call has settled the handler has
\* responded; and from the moment a sampling request is built no findProduct
\* call is running or issues another lookup or search.
SamplingCalls == {k \in DOMAIN calls : calls[k].fn = "requestSampling"}

C17_State ==
  tool \in Orchestrators =>
    /\ Cardinality(SamplingCalls) <= 1
    /\ Len(calls) <= 2
    /\ awaited.kind \in {"ok", "throw"} => Responded
    /\ SamplingTouched =>
         \A i \in DOMAIN ids : res[i].pc = "done" /\ InFlight(i) = 0

C17_NoRetry ==
  /\ []C17_State
  /\ [][SamplingTouched => (res' = res /\ SamplingCalls' = SamplingCalls)]_vars

C17_Witness ==
  /\ tool = "analyzeProduct" /\ Responded /\ awaited.kind = "throw"
  /\ Cardinality(SamplingCalls) = 1
  /\ Len(res[1].calls) = 3

\* C18: called with an identifier that is missing, empty or white space only,
\* findProduct returns null at once, having made no barcode lookup and no
\* search.
C18_BlankResolvesToAbsent ==
  (tool = "findProduct" /\ MissingOrWhite(ids[1])) =>
    /\ res[1].pc = "done" /\ res[1].ret = None /\ res[1].thrown = None
    /\ res[1].calls = <<>> /\ res[1].settled = <<>> /\ res[1].logged = <<>>
    /\ calls = <<>>

C18_Witness ==
  /\ tool = "findProduct" /\ ids = <<Some(<<" ", " ">>)>>
  /\ res[1].pc = "done"

\* C19: when every collaborator call that is awaited eventually settles, every
\* invocation of analyzeProduct, compareProducts or suggestRecipes eventually
\* returns a response; no error leaves the handler in its place, and the
\* response, once returned, is never replaced by another.
C19_EventuallyRespondsOnce ==
  /\ (tool \in Orchestrators) ~> Responded
  /\ [](tool \in Orchestrators /\ pc = "done" => response # None /\ escaped = None)
  /\ [][response # None => (response' = response /\ pc' = "done")]_vars

C19_Witness ==
  /\ tool = "compareProducts" /\ Responded
  /\ \A i \in 1..2 : Len(res[i].settled) = 3
  /\ awaited.kind = "ok"

\* The names of the collaborator calls findProduct call i has issued, in order.
CallOrder(i) == [k \in 1..Len(res[i].calls) |-> res[i].calls[k].fn]
\* direct lookup, search, follow-up lookup: the order of a digit query, and
\* without the direct lookup the order of any other query.
FullOrder == <<"getProductByBarcode", "searchProducts", "getProductByBarcode">>
Prefixes(seq) == {SubSeq(seq, 1, n) : n \in 0..Len(seq)}

\* C20: one findProduct call issues at most three collaborator calls, in the
\* order direct lookup, search, follow-up lookup (the direct lookup only for a
\* digit query), so at most one search and two lookups, and issues none after
\* a lookup has returned a product.
C20_AtMostThreeCallsInOrder ==
  \A i \in 1..2 :
    Called(i) =>
      /\ Len(res[i].calls) <= 3
      /\ CallOrder(i) \in
           (IF DigitsOnly(res[i].query) THEN Prefixes(FullOrder)
            ELSE Prefixes(Tail(FullOrder)))
      /\ Cardinality({k \in DOMAIN res[i].calls : res[i].calls[k].fn = "searchProducts"}) <= 1
      /\ Cardinality({k \in DOMAIN res[i].calls : res[i].calls[k].fn = "getProductByBarcode"}) <= 2
      /\ \A k \in DOMAIN res[i].calls :
           GaveProduct(i, k) => (Len(res[i].calls) = k /\ res[i].pc = "done")

C20_Witness ==
  /\ tool = "analyzeProduct" /\ Called(1)
  /\ CallOrder(1) = FullOrder
  /\ GaveNoProduct(1, 1) /\ GaveProduct(1, 3)

====
